---- MODULE Spec2Model ----
(***************************************************************************)
(* Model of megatron/model/gpt2_model.py: the construction of the layer    *)
(* specification list of GPT2ModelPipe (__init__, substitue_args,          *)
(* init_specs), its materialization (to_sequential) and the loss functions *)
(* (cross_entropy, kldiv_loss, mse_loss, combined_loss).                   *)
(*                                                                         *)
(* Python objects are modelled by reference where the code shares them:    *)
(* `objects` is the heap of argument objects, and a spec or a list that    *)
(* holds neox_args holds its index in `objects`.                           *)
(***************************************************************************)
EXTENDS Integers, Sequences, FiniteSets, TLC

\* ------------------------------------------------------------------ bounds
MaxLayers == 2
MaxAlpha == 2
MaxSeqLen == 3
MaxTerm == 2

\* ------------------------------------------------------- values and options
\* An optional value: {} is Python's None, {v} is the value v.
None == {}
Some(v) == {v}
Get(o) == CHOOSE v \in o : TRUE
Opt(S) == {None} \cup {Some(v) : v \in S}

NormKinds == {"layernorm", "rmsnorm", "scalenorm"}
\* "groupnorm" stands for any value of neox_args.norm the code has no branch for.
NormValues == NormKinds \cup {"groupnorm"}
PosEmbValues == {"learned", "rpe", "rotary"}

HiddenSizes == {64, 128}

\* The attributes a role's argument object (teacher_model_args,
\* student_model_args) can carry; each is None or a value.
RoleArgNames == {"num_layers", "hidden_size"}
RoleArgs == [num_layers : Opt(1..MaxLayers), hidden_size : Opt(HiddenSizes)]
NoRoleArgs == [num_layers |-> None, hidden_size |-> None]

\* ---------------------------------------------------------------- errors
NoError == [type |-> "None", what |-> "", n |-> -1]
Raise(type, what, n) == [type |-> type, what |-> what, n |-> n]

VARIABLES
    given,        \* the constructor's arguments, as the caller passed them
    objects,      \* heap of argument objects (neox_args), by index
    pc,           \* "new", "built", "failed", "sequential", "seq_failed", "loss", "loss_done"
    self,         \* the GPT2ModelPipe object's attributes
    error,        \* the exception the last operation raised, or NoError
    model,        \* to_sequential's result: layers, tied_layers, closure cell
    called,       \* the last call of a layer of the materialized model
    loss_in,      \* arguments of the last loss-function call
    loss_out      \* its result

vars == <<given, objects, pc, self, error, model, called, loss_in, loss_out>>

\* --------------------------------------------------------- substitue_args
\* neox_args.__dict__[arg] = args_to_substitue.__dict__[arg] for every arg that
\* is not None: the object at `ref` is changed in place.
Overlay(args, role_args) ==
    [a \in DOMAIN args |->
        IF a \in RoleArgNames /\ role_args[a] # None THEN Get(role_args[a]) ELSE args[a]]

\* Returns the heap after the call; the value returned is `ref` itself.
substitue_args(heap, ref, set_student_args) ==
    IF heap[ref].do_distillation
    THEN LET args_to_substitue == IF set_student_args
                                  THEN heap[ref].student_model_args
                                  ELSE heap[ref].teacher_model_args
         IN [heap EXCEPT ![ref] = Overlay(heap[ref], args_to_substitue)]
    ELSE heap

\* ------------------------------------------------------------- spec objects
NoFn == [name |-> "None", call |-> 0]

TiedLayerSpec(key, typename, args, forward_fn) ==
    [cls |-> "TiedLayerSpec", key |-> key, typename |-> typename, args |-> args,
     forward_fn |-> forward_fn, tied_weight_attr |-> "word_embeddings_weight"]

LayerSpec(typename, args) ==
    [cls |-> "LayerSpec", typename |-> typename, args |-> args]

\* A lambda of init_specs, named by what it does.
Function(name) == [cls |-> "function", name |-> name]

\* isinstance(spec, cls): TiedLayerSpec is a subclass of LayerSpec.
IsInstance(spec, cls) ==
    \/ spec.cls = cls
    \/ cls = "LayerSpec" /\ spec.cls = "TiedLayerSpec"

\* hasattr(spec, '__call__')
Callable(spec) == spec.cls = "function"

\* -------------------------------------------------------------- init_specs
\* 'embed' + student_embed_name
EmbedKey(student_embed_name) ==
    IF student_embed_name = "_s" THEN "embed_s" ELSE "embed"

\* Mutant of StudentEmbedName: the suffix of a second stack is forgotten.
StudentEmbedNameNoSuffix(weight_tying, specs) == ""

\* student_embed_name after lines 189-192: "_s" when specs of an earlier
\* init_specs call are already there, and only under weight tying.
StudentEmbedName(weight_tying, specs) ==
    IF weight_tying
    THEN (IF Len(specs) > 0 THEN "_s" ELSE "")
    ELSE ""

\* The embedding stage appended first.
EmbeddingSpec(s, weight_tying, student_embed_name) ==
    LET typename == IF s.do_distillation THEN "EmbeddingDistilPipe" ELSE "EmbeddingPipe"
        args == [neox_args |-> s.neox_args, hidden_size |-> s.hidden_size,
                 num_tokentypes |-> s.num_tokentypes]
    IN IF weight_tying
       THEN TiedLayerSpec(EmbedKey(student_embed_name), typename, args, NoFn)
       ELSE LayerSpec(typename, args)

\* [b s h] --> [s b h]; in inference a container for `presents` is added.
ToSeqMajor(s) ==
    IF s._inference
    THEN Function("transpose_insert_presents")
    ELSE Function("transpose_keep_rest")

\* for x in range(num_layers): one LayerSpec each, layer_number=x.
TransformerSpecs(s, neox_args, call) ==
    [i \in 1..neox_args.num_layers |->
        LayerSpec(IF s.do_distillation THEN "ParallelTransformerLayerDistilPipe"
                                       ELSE "ParallelTransformerLayerPipe",
                  [neox_args |-> s.neox_args,
                   layer_number |-> i - 1,
                   rpe |-> IF neox_args.pos_emb = "rpe" THEN call ELSE 0,
                   rotary |-> neox_args.pos_emb = "rotary",
                   get_key_value |-> s.get_key_value])]

\* The lambda that undoes the data format change.
FromSeqMajor(s) ==
    IF s._inference
    THEN Function("transpose_keep_presents")
    ELSE IF s.do_distillation
         THEN Function("transpose_keep_rest")
         ELSE Function("transpose_drop_rest")

\* The if/elif chain over neox_args.norm: the local `norm` (and `eps`) is bound
\* only in a branch; with no branch taken it stays unbound (None here).
NormChoice(neox_args) ==
    IF neox_args.norm = "rmsnorm"
    THEN Some([norm |-> "RMSNorm", eps |-> "rms_norm_epsilon"])
    ELSE IF neox_args.norm = "layernorm"
         THEN Some([norm |-> "LayerNorm", eps |-> "layernorm_epsilon"])
         ELSE IF neox_args.norm = "scalenorm"
              THEN Some([norm |-> "ScaleNorm", eps |-> "scalenorm_epsilon"])
              ELSE None

NormSpec(s, neox_args, choice) ==
    LayerSpec(IF s.do_distillation THEN "NormDistilPipe" ELSE "NormPipe",
              [norm |-> choice.norm, hidden_size |-> neox_args.hidden_size,
               eps |-> choice.eps])

\* The output stage: a TiedLayerSpec with forward_fn=_logits_helper (the closure
\* defined by this call of init_specs), or a ParallelLinear LayerSpec.
OutputSpec(s, weight_tying, student_embed_name, call) ==
    IF weight_tying
    THEN TiedLayerSpec(EmbedKey(student_embed_name),
                       IF s.do_distillation THEN "EmbeddingDistilPipe" ELSE "EmbeddingPipe",
                       [neox_args |-> s.neox_args, hidden_size |-> s.hidden_size,
                        num_tokentypes |-> s.num_tokentypes],
                       [name |-> "_logits_helper", call |-> call])
    ELSE LayerSpec(IF s.do_distillation THEN "ParallelLinearDistilPipe"
                                        ELSE "ParallelLinearPipe",
                   [neox_args |-> s.neox_args, parallel_output |-> s.parallel_output])

\* One call of init_specs, the `call`-th of this construction. Returns the
\* object's attributes after it and the exception raised, if any: reading the
\* unbound local `norm` raises UnboundLocalError after the stages before the
\* norm stage have been appended.
init_specs(s, heap, call) ==
    LET neox_args == heap[s.neox_args]
        weight_tying == ~neox_args.no_weight_tying
        student_embed_name == StudentEmbedName(weight_tying, s.specs)
        upto_norm == (s.specs \o <<EmbeddingSpec(s, weight_tying, student_embed_name),
                                   ToSeqMajor(s)>>)
                     \o TransformerSpecs(s, neox_args, call)
                     \o <<FromSeqMajor(s)>>
        choice == NormChoice(neox_args)
    IN IF choice = None
       THEN [self |-> [s EXCEPT !.specs = upto_norm],
             error |-> Raise("UnboundLocalError", "norm", -1)]
       ELSE [self |-> [s EXCEPT !.specs = upto_norm
                                   \o <<NormSpec(s, neox_args, Get(choice)),
                                        OutputSpec(s, weight_tying, student_embed_name, call)>>],
             error |-> NoError]

\* ---------------------------------------------------------------- __init__
\* list_neox_args of lines 139-145 for the argument object at `ref`: the heap
\* after the calls of substitue_args and the references the list holds.
\* substitue_args returns the object it was given, so with distillation both
\* elements are `ref`, and the teacher's overlay is applied before the student's
\* to that one object.
ListNeoxArgs(heap, ref) ==
    IF heap[ref].do_distillation
    THEN LET after_teacher == substitue_args(heap, ref, FALSE)
             after_student == substitue_args(after_teacher, ref, TRUE)
         IN [heap |-> after_student, list |-> <<ref, ref>>]
    ELSE [heap |-> heap, list |-> <<ref>>]

\* The loop of lines 147-154 from its i-th iteration on; it ends at the first
\* exception.
RECURSIVE InitLoop(_, _, _, _)
InitLoop(s, heap, list, i) ==
    IF i > Len(list)
    THEN [self |-> s, error |-> NoError]
    ELSE LET neox_args == heap[list[i]]
             s1 == [s EXCEPT !.neox_args = list[i],
                             !.hidden_size = neox_args.hidden_size,
                             !.fp16_lm_cross_entropy = neox_args.fp16_lm_cross_entropy,
                             !.embedding_type = neox_args.pos_emb]
             r == init_specs(s1, heap, i)
         IN IF r.error # NoError THEN r ELSE InitLoop(r.self, heap, list, i + 1)

\* loss_fn of lines 156-163, a functools.partial.
LossFn(s, neox_args) ==
    IF s.do_distillation
    THEN [fn |-> "combined_loss",
          alpha_lm |-> neox_args.alpha_lm,
          alpha_kld |-> neox_args.alpha_kld,
          alpha_mse |-> neox_args.alpha_mse,
          _fp16 |-> s.fp16_lm_cross_entropy]
    ELSE [fn |-> "cross_entropy", alpha_lm |-> 0, alpha_kld |-> 0, alpha_mse |-> 0,
          _fp16 |-> s.fp16_lm_cross_entropy]

\* Mutant of BoundLossFn: the loss is bound in inference too.
BoundLossFnAlways(s, loss_fn) == Some(loss_fn)

\* loss_fn=loss_fn if not self._inference else None
BoundLossFn(s, loss_fn) ==
    IF ~s._inference THEN Some(loss_fn) ELSE None

\* interval of lines 165-168
CheckpointInterval(neox_args) ==
    IF neox_args.checkpoint_activations THEN neox_args.checkpoint_num_layers ELSE 0

\* The attributes set by lines 131-137.
NewSelf(g, heap) ==
    [neox_args |-> 1,
     _inference |-> g.inference,
     get_key_value |-> IF g.inference THEN g.get_key_value ELSE FALSE,
     parallel_output |-> g.parallel_output,
     do_distillation |-> heap[1].do_distillation,
     specs |-> <<>>,
     hidden_size |-> 0,
     num_tokentypes |-> g.num_tokentypes,
     fp16_lm_cross_entropy |-> FALSE,
     embedding_type |-> "",
     loss_fn |-> None,
     activation_checkpoint_interval |-> 0]

\* GPT2ModelPipe(neox_args, ..., inference=...): the whole constructor.
Construct ==
    /\ pc = "new"
    /\ LET s0 == NewSelf(given, objects)
       IN IF s0.do_distillation /\ s0._inference
          THEN /\ pc' = "failed"
               /\ error' = Raise("AssertionError", "Cannot use distill model for inference !", -1)
               /\ self' = s0
               /\ objects' = objects
          ELSE LET l == ListNeoxArgs(objects, 1)
                   r == InitLoop(s0, l.heap, l.list, 1)
                   neox_args == l.heap[r.self.neox_args]
               IN /\ objects' = l.heap
                  /\ error' = r.error
                  /\ IF r.error # NoError
                     THEN /\ pc' = "failed"
                          /\ self' = r.self
                     ELSE /\ pc' = "built"
                          /\ self' = [r.self EXCEPT
                                 !.loss_fn = BoundLossFn(r.self, LossFn(r.self, neox_args)),
                                 !.activation_checkpoint_interval = CheckpointInterval(neox_args)]
    /\ UNCHANGED <<given, model, called, loss_in, loss_out>>

\* ------------------------------------------------------------ to_sequential
\* A layer of the sequential model: a built module (known by the position of the
\* spec it was built from: two modules are the same object iff that position is
\* the same), Lambda(spec) around a callable of the list, or the receiver Lambda
\* of line 343, whose body reads the enclosing frame's variables `spec` and
\* `tied_layers` when it is called.
Module(n) == [cls |-> "module", built_from |-> n]
LambdaOf(spec) == [cls |-> "Lambda", body |-> "spec", fn |-> spec.name]
ReceiverLambda == [cls |-> "Lambda", body |-> "spec.forward_fn(tied_layers[spec.key][0], x)"]

\* Mutant of ReportedPosition: the position is counted from 1.
ReportedPositionFromOne(n) == n

\* The n of enumerate(self.specs) for the element at index n of the list here:
\* enumerate counts from 0.
ReportedPosition(n) == n - 1

\* The loop of lines 339-355 from position n (1-based here). acc.spec is the loop
\* variable `spec`, as the index of the element it is bound to.
RECURSIVE ToSequentialLoop(_, _, _)
ToSequentialLoop(specs, n, acc) ==
    IF n > Len(specs)
    THEN acc
    ELSE LET spec == specs[n]
             at == [acc EXCEPT !.spec = n]
         IN IF IsInstance(spec, "TiedLayerSpec")
            THEN IF spec.key \in DOMAIN at.tied_layers
                 THEN ToSequentialLoop(specs, n + 1,
                        [at EXCEPT !.layers = Append(@, ReceiverLambda)])
                 ELSE ToSequentialLoop(specs, n + 1,
                        [at EXCEPT !.layers = Append(@, Module(n)),
                                   !.tied_layers = @ @@ (spec.key :> <<Module(n)>>)])
            ELSE IF IsInstance(spec, "LayerSpec")
                 THEN ToSequentialLoop(specs, n + 1,
                        [at EXCEPT !.layers = Append(@, Module(n))])
                 ELSE IF Callable(spec)
                      THEN ToSequentialLoop(specs, n + 1,
                             [at EXCEPT !.layers = Append(@, LambdaOf(spec))])
                      ELSE [at EXCEPT !.error = Raise("ValueError", "Not recognized", ReportedPosition(n))]

\* model.to_sequential(): the SequentialWrapper, or the exception and no model.
ToSequential ==
    /\ pc = "built"
    /\ LET r == ToSequentialLoop(self.specs, 1,
                    [layers |-> <<>>, tied_layers |-> <<>>, spec |-> 0, error |-> NoError])
       IN IF r.error # NoError
          THEN /\ pc' = "seq_failed"
               /\ error' = r.error
               /\ model' = model
          ELSE /\ pc' = "sequential"
               /\ error' = NoError
               /\ model' = [layers |-> r.layers, tied_layers |-> r.tied_layers,
                            spec |-> r.spec,
                            activation_checkpoint_interval |->
                                self.activation_checkpoint_interval]
    /\ UNCHANGED <<given, objects, self, called, loss_in, loss_out>>

\* What calling the receiver Lambda does, with `spec` bound as the frame left
\* it: spec.forward_fn is looked up first, then tied_layers[spec.key][0]
\* (tied_layers is a defaultdict(list)), then the call is made.
ReceiverCall(specs, m, i) ==
    LET spec == specs[m.spec]
        base == [layer |-> i, spec |-> m.spec, forward_fn |-> NoFn, module |-> 0,
                 error |-> NoError]
    IN IF ~IsInstance(spec, "TiedLayerSpec")
       THEN [base EXCEPT !.error = Raise("AttributeError", "forward_fn", -1)]
       ELSE IF spec.key \notin DOMAIN m.tied_layers
            THEN [base EXCEPT !.error = Raise("IndexError", "list index out of range", -1)]
            ELSE IF spec.forward_fn = NoFn
                 THEN [base EXCEPT !.error = Raise("TypeError", "'NoneType' object is not callable", -1)]
                 ELSE [base EXCEPT !.forward_fn = spec.forward_fn,
                                   !.module = m.tied_layers[spec.key][1].built_from]

\* A call of layer i of the sequential model (layers[i](x)).
CallLayer(i) ==
    /\ pc = "sequential"
    /\ i \in 1..Len(model.layers)
    /\ LET layer == model.layers[i]
       IN called' =
            IF layer.cls = "module"
            THEN [layer |-> i, spec |-> i, forward_fn |-> NoFn,
                  module |-> layer.built_from, error |-> NoError]
            ELSE IF layer = ReceiverLambda
                 THEN ReceiverCall(self.specs, model, i)
                 ELSE [layer |-> i, spec |-> i, forward_fn |-> [name |-> layer.fn, call |-> 0],
                       module |-> 0, error |-> NoError]
    /\ UNCHANGED <<given, objects, pc, self, error, model, loss_in, loss_out>>

\* ---------------------------------------------------------- loss functions
\* A tensor is known by its dtype. The loss primitives of mpu are opaque: a call
\* of one is recorded with the dtypes it was given, and its masked mean over a
\* batch with at least one unmasked token is the number values[primitive] the
\* caller's batch determines.
Tensor(dtype) == [dtype |-> dtype]
FloatDtypes == {"half", "float"}

\* megatron.fp16.fp16_to_fp32: a half tensor becomes a float one, any other is
\* returned as it is.
fp16_to_fp32(val) ==
    IF val.dtype = "half" THEN Tensor("float") ELSE val

PrimitiveCall(primitive, output, labels) ==
    [primitive |-> primitive, output |-> output.dtype, labels |-> labels.dtype]

LossResult(value, prims) == [value |-> value, error |-> NoError, prims |-> prims]
LossError(err, prims) == [value |-> 0, error |-> err, prims |-> prims]

\* cross_entropy(output, (labels, loss_mask), _fp16)
cross_entropy(output, labels, loss_mask, _fp16, values) ==
    IF _fp16
    THEN IF output.dtype = "half" /\ loss_mask.dtype = "half"
         THEN LossResult(values["vocab_parallel_cross_entropy"],
                         <<PrimitiveCall("vocab_parallel_cross_entropy", output, labels)>>)
         ELSE LossError(Raise("AssertionError", "dtype", -1), <<>>)
    ELSE LossResult(values["vocab_parallel_cross_entropy"],
                    <<PrimitiveCall("vocab_parallel_cross_entropy",
                                    fp16_to_fp32(output), labels)>>)

\* kldiv_loss(output, (labels, loss_mask), _fp16)
kldiv_loss(output, labels, loss_mask, _fp16, values) ==
    IF _fp16
    THEN IF output.dtype = "half" /\ labels.dtype = "half" /\ loss_mask.dtype = "half"
         THEN LossResult(values["vocab_parallel_KLDivLoss"],
                         <<PrimitiveCall("vocab_parallel_KLDivLoss", output, labels)>>)
         ELSE LossError(Raise("AssertionError", "dtype", -1), <<>>)
    ELSE LossResult(values["vocab_parallel_KLDivLoss"],
                    <<PrimitiveCall("vocab_parallel_KLDivLoss",
                                    fp16_to_fp32(output), fp16_to_fp32(labels))>>)

\* The primitive mse_loss calls (lines 87 and 90).
MsePrimitive == "vocab_parallel_KLDivLoss"

\* The labels mse_loss hands to the primitive when _fp16 is off: line 90 runs
\* before the conversion of line 91.
MseLabelsAtCall(labels) == labels

\* mse_loss(output, (labels, loss_mask), _fp16)
mse_loss(output, labels, loss_mask, _fp16, values) ==
    IF _fp16
    THEN IF output.dtype = "half" /\ labels.dtype = "half" /\ loss_mask.dtype = "half"
         THEN LossResult(values[MsePrimitive],
                         <<PrimitiveCall(MsePrimitive, output, labels)>>)
         ELSE LossError(Raise("AssertionError", "dtype", -1), <<>>)
    ELSE LossResult(values[MsePrimitive],
                    <<PrimitiveCall(MsePrimitive, fp16_to_fp32(output),
                                    MseLabelsAtCall(labels))>>)

\* The local `loss` of combined_loss after `loss = alpha * term` (line 102).
AssignTerm(acc, alpha, r) ==
    IF r.error # NoError
    THEN [acc EXCEPT !.error = r.error, !.prims = @ \o r.prims]
    ELSE [acc EXCEPT !.loss = Some(alpha * r.value), !.prims = @ \o r.prims]

\* ... and after `loss += alpha * term` (lines 106, 110): the term is computed
\* first, then the unbound local is read.
AddTerm(acc, alpha, r) ==
    IF r.error # NoError
    THEN [acc EXCEPT !.error = r.error, !.prims = @ \o r.prims]
    ELSE IF acc.loss = None
         THEN [acc EXCEPT !.error = Raise("UnboundLocalError", "loss", -1),
                          !.prims = @ \o r.prims]
         ELSE [acc EXCEPT !.loss = Some(Get(@) + alpha * r.value), !.prims = @ \o r.prims]

\* combined_loss(output, labels, alpha_lm, alpha_kld, alpha_mse, _fp16)
combined_loss(output, labels, loss_mask, alpha_lm, alpha_kld, alpha_mse, _fp16, values) ==
    LET teacher_logits == output.teacher_logits
        student_logits == output.student_logits
        s0 == [loss |-> None, error |-> NoError, prims |-> <<>>]
        s1 == IF alpha_lm > 0
              THEN AssignTerm(s0, alpha_lm,
                              cross_entropy(student_logits, labels, loss_mask, _fp16, values))
              ELSE s0
        s2 == IF s1.error = NoError /\ alpha_kld > 0
              THEN AddTerm(s1, alpha_kld,
                           kldiv_loss(student_logits, teacher_logits, loss_mask, _fp16, values))
              ELSE s1
        s3 == IF s2.error = NoError /\ alpha_mse > 0
              THEN AddTerm(s2, alpha_mse,
                           mse_loss(student_logits, teacher_logits, loss_mask, _fp16, values))
              ELSE s2
    IN IF s3.error # NoError
       THEN LossError(s3.error, s3.prims)
       ELSE IF s3.loss = None
            THEN LossError(Raise("UnboundLocalError", "loss", -1), s3.prims)
            ELSE LossResult(Get(s3.loss), s3.prims)

Done(fn, r) == [fn |-> fn, value |-> r.value, error |-> r.error, prims |-> r.prims]

CallCrossEntropy ==
    /\ pc = "loss"
    /\ loss_out' = Done("cross_entropy",
            cross_entropy(loss_in.output.student_logits, loss_in.labels, loss_in.loss_mask,
                          loss_in._fp16, loss_in.values))
    /\ pc' = "loss_done"
    /\ UNCHANGED <<given, objects, self, error, model, called, loss_in>>

CallKldivLoss ==
    /\ pc = "loss"
    /\ loss_out' = Done("kldiv_loss",
            kldiv_loss(loss_in.output.student_logits, loss_in.output.teacher_logits,
                       loss_in.loss_mask, loss_in._fp16, loss_in.values))
    /\ pc' = "loss_done"
    /\ UNCHANGED <<given, objects, self, error, model, called, loss_in>>

CallMseLoss ==
    /\ pc = "loss"
    /\ loss_out' = Done("mse_loss",
            mse_loss(loss_in.output.student_logits, loss_in.output.teacher_logits,
                     loss_in.loss_mask, loss_in._fp16, loss_in.values))
    /\ pc' = "loss_done"
    /\ UNCHANGED <<given, objects, self, error, model, called, loss_in>>

CallCombinedLoss ==
    /\ pc = "loss"
    /\ loss_out' = Done("combined_loss",
            combined_loss(loss_in.output, loss_in.labels, loss_in.loss_mask,
                          loss_in.alpha_lm, loss_in.alpha_kld, loss_in.alpha_mse,
                          loss_in._fp16, loss_in.values))
    /\ pc' = "loss_done"
    /\ UNCHANGED <<given, objects, self, error, model, called, loss_in>>

\* ------------------------------------------------------------------- Init
NoModel == [layers |-> <<>>, tied_layers |-> <<>>, spec |-> 0,
            activation_checkpoint_interval |-> 0]
NoCall == [layer |-> 0, spec |-> 0, forward_fn |-> NoFn, module |-> 0, error |-> NoError]
NoLossIn == [fn |-> "None"]
NoLossOut == [fn |-> "None", value |-> 0, error |-> NoError, prims |-> <<>>]
NoGiven == [inference |-> FALSE, get_key_value |-> TRUE, parallel_output |-> TRUE,
            num_tokentypes |-> 0]

\* The argument objects a caller can pass. What the constructor never reads is
\* left at its default: the alphas without do_distillation, the role objects
\* without do_distillation or with inference (the constructor raises before
\* it reads them). The weights of a distillation run are the triples over
\* 0..MaxAlpha that sum to MaxAlpha.
ArgObjectsFor(inference, layers, pos_embs, flags, role_args) ==
    {a \in [do_distillation : BOOLEAN,
            hidden_size : HiddenSizes,
            num_layers : layers,
            norm : NormValues,
            no_weight_tying : BOOLEAN,
            pos_emb : pos_embs,
            fp16_lm_cross_entropy : flags,
            alpha_lm : 0..MaxAlpha,
            alpha_kld : 0..MaxAlpha,
            alpha_mse : 0..MaxAlpha,
            checkpoint_activations : flags,
            checkpoint_num_layers : {1},
            teacher_model_args : role_args,
            student_model_args : role_args] :
        /\ (~a.do_distillation \/ inference) =>
              /\ a.teacher_model_args = NoRoleArgs
              /\ a.student_model_args = NoRoleArgs
        /\ a.alpha_lm + a.alpha_kld + a.alpha_mse = (IF a.do_distillation THEN MaxAlpha ELSE 0)}

\* Two families: every shape of model (layers, sizes, role overrides) under the
\* default flags, and every combination of flags without role overrides.
ArgObjects(inference) ==
    ArgObjectsFor(inference, 1..MaxLayers, {"learned"}, {FALSE}, RoleArgs)
    \cup ArgObjectsFor(inference, 1..MaxLayers, PosEmbValues, BOOLEAN, {NoRoleArgs})

InitWith(inference, a) ==
    /\ given = [neox_args |-> a, inference |-> inference, get_key_value |-> TRUE,
                parallel_output |-> TRUE, num_tokentypes |-> 0]
    /\ objects = <<a>>
    /\ pc = "new"
    /\ self = [specs |-> <<>>]
    /\ error = NoError
    /\ model = NoModel
    /\ called = NoCall
    /\ loss_in = NoLossIn
    /\ loss_out = NoLossOut

\* Construction, over every argument object of the bounds.
Init ==
    \E inference \in BOOLEAN :
        \E a \in ArgObjects(inference) : InitWith(inference, a)

Next == Construct

Spec == Init /\ [][Next]_vars

\* ------------------------------------------------- materialization: MatSpec
\* What a list handed to to_sequential can hold: the specs and lambdas of
\* init_specs, and objects that are none of them.
SpecAlphabet ==
    {TiedLayerSpec(key, "EmbeddingPipe", [neox_args |-> 1], fn) :
        key \in {"embed", "embed_s"},
        fn \in {NoFn, [name |-> "_logits_helper", call |-> 1]}}
    \cup {LayerSpec("NormPipe", [neox_args |-> 1]),
          Function("transpose_keep_rest"),
          [cls |-> "NoneType"],
          [cls |-> "int"]}

RECURSIVE SeqsUpTo(_, _)
SeqsUpTo(S, n) ==
    IF n = 0
    THEN {<<>>}
    ELSE LET shorter == SeqsUpTo(S, n - 1)
         IN shorter \cup {Append(q, x) : q \in shorter, x \in S}

\* A pipeline whose `specs` list was assigned by the caller.
MatInitAssigned ==
    /\ given = NoGiven
    /\ objects = <<>>
    /\ pc = "built"
    /\ \E q \in SeqsUpTo(SpecAlphabet, MaxSeqLen) :
          self = [specs |-> q, activation_checkpoint_interval |-> 0]
    /\ error = NoError
    /\ model = NoModel
    /\ called = NoCall
    /\ loss_in = NoLossIn
    /\ loss_out = NoLossOut

MatInit ==
    \/ \E inference \in BOOLEAN :
          \E a \in ArgObjectsFor(inference, 1..MaxLayers, {"learned"}, {FALSE}, {NoRoleArgs}) :
              InitWith(inference, a)
    \/ MatInitAssigned

MatNext ==
    \/ Construct
    \/ ToSequential
    \/ \E i \in 1..(2 * (MaxLayers + 5)) : CallLayer(i)

MatSpec == MatInit /\ [][MatNext]_vars

\* --------------------------------------------------- loss calls: LossSpec
\* The primitives a batch gives a value to: the two the code calls, and the
\* mean squared error, which the documentation names and the code never calls.
Primitives == {"vocab_parallel_cross_entropy", "vocab_parallel_KLDivLoss",
               "mean_squared_error"}

LossInit ==
    /\ given = NoGiven
    /\ objects = <<>>
    /\ pc = "loss"
    /\ self = [specs |-> <<>>]
    /\ error = NoError
    /\ model = NoModel
    /\ called = NoCall
    /\ \E student \in FloatDtypes, teacher \in FloatDtypes, mask \in FloatDtypes,
          _fp16 \in BOOLEAN,
          alpha_lm \in 0..MaxAlpha, alpha_kld \in 0..MaxAlpha, alpha_mse \in 0..MaxAlpha,
          values \in [Primitives -> 0..MaxTerm] :
          loss_in = [fn |-> "args",
                     output |-> [teacher_logits |-> Tensor(teacher),
                                 student_logits |-> Tensor(student)],
                     labels |-> Tensor("long"),
                     loss_mask |-> Tensor(mask),
                     alpha_lm |-> alpha_lm, alpha_kld |-> alpha_kld, alpha_mse |-> alpha_mse,
                     _fp16 |-> _fp16,
                     values |-> values]
    /\ loss_out = NoLossOut

LossNext ==
    \/ CallCrossEntropy
    \/ CallKldivLoss
    \/ CallMseLoss
    \/ CallCombinedLoss

LossSpec == LossInit /\ [][LossNext]_vars

\* ================================================================== claims
\* The config of a role as the documentation describes it: the caller's base
\* arguments with only that role's non-None overrides laid over them.
TeacherConfig == Overlay(given.neox_args, given.neox_args.teacher_model_args)
StudentConfig == Overlay(given.neox_args, given.neox_args.student_model_args)

\* The stage an element of the list is, read off the element alone.
IsOutputStage(s) ==
    \/ s.cls = "TiedLayerSpec" /\ s.forward_fn # NoFn
    \/ s.cls = "LayerSpec" /\ s.typename \in {"ParallelLinearPipe", "ParallelLinearDistilPipe"}

StageKind(s) ==
    IF s.cls = "function"
    THEN [kind |-> "adapter", layer_number |-> -1]
    ELSE IF IsOutputStage(s)
         THEN [kind |-> "output", layer_number |-> -1]
         ELSE IF s.typename \in {"EmbeddingPipe", "EmbeddingDistilPipe"}
              THEN [kind |-> "embedding", layer_number |-> -1]
              ELSE IF s.typename \in {"NormPipe", "NormDistilPipe"}
                   THEN [kind |-> "norm", layer_number |-> -1]
                   ELSE [kind |-> "transformer", layer_number |-> s.args.layer_number]

\* embedding, adapter, num_layers transformer layers numbered from 0, adapter,
\* norm, output.
StackKinds(num_layers) ==
    (<<[kind |-> "embedding", layer_number |-> -1], [kind |-> "adapter", layer_number |-> -1]>>
     \o [i \in 1..num_layers |-> [kind |-> "transformer", layer_number |-> i - 1]])
    \o <<[kind |-> "adapter", layer_number |-> -1], [kind |-> "norm", layer_number |-> -1],
         [kind |-> "output", layer_number |-> -1]>>

\* Position of the first output stage: the last stage of the first stack.
FirstOutput(specs) ==
    CHOOSE k \in 1..Len(specs) :
        /\ IsOutputStage(specs[k])
        /\ \A j \in 1..(k - 1) : ~IsOutputStage(specs[j])

\* The values of the role-dependent arguments stage s was given: the argument
\* object it refers to, and the hidden size passed beside it.
StageBuiltFrom(s, cfg) ==
    /\ "neox_args" \in DOMAIN s.args =>
          /\ objects[s.args.neox_args].hidden_size = cfg.hidden_size
          /\ objects[s.args.neox_args].num_layers = cfg.num_layers
    /\ "hidden_size" \in DOMAIN s.args => s.args.hidden_size = cfg.hidden_size

\* C2: with distillation every stage of the first stack is built from the
\* teacher config (base + teacher overrides only) and every stage of the
\* second from the student config (base + student overrides only).
C2_StacksBuiltFromOwnRoleConfig ==
    (pc = "built" /\ self.do_distillation) =>
        LET k == FirstOutput(self.specs)
        IN \A p \in 1..Len(self.specs) :
              self.specs[p].cls # "function" =>
                  StageBuiltFrom(self.specs[p], IF p <= k THEN TeacherConfig ELSE StudentConfig)

\* C4: the assembled list is one stack (embedding, adapter, num_layers
\* transformer layers 0..num_layers-1, adapter, norm, output: num_layers + 5
\* stages) without distillation, and the teacher's stack followed by the
\* student's, each with its own role's num_layers, with distillation.
C4_SequenceShape ==
    pc = "built" =>
        /\ [p \in 1..Len(self.specs) |-> StageKind(self.specs[p])]
              = (IF self.do_distillation
                 THEN StackKinds(TeacherConfig.num_layers) \o StackKinds(StudentConfig.num_layers)
                 ELSE StackKinds(given.neox_args.num_layers))
        /\ ~self.do_distillation => Len(self.specs) = given.neox_args.num_layers + 5

\* The Tied specs of the list, in order.
TiedSpecs(specs) == SelectSeq(specs, LAMBDA s : s.cls = "TiedLayerSpec")

\* C5: under weight tying the Tied specs of the list are exactly the embedding
\* and output stage of each stack, keyed "embed" in the first stack and
\* "embed_s" in the second, so each key occurs twice, owner (no forward_fn)
\* before receiver (with forward_fn); without weight tying there is none.
C5_TieKeys ==
    pc = "built" =>
        LET tied == TiedSpecs(self.specs)
        IN IF ~given.neox_args.no_weight_tying
           THEN /\ [i \in 1..Len(tied) |-> tied[i].key]
                      = (IF self.do_distillation
                         THEN <<"embed", "embed", "embed_s", "embed_s">>
                         ELSE <<"embed", "embed">>)
                /\ \A i \in 1..Len(tied) :
                      IF i % 2 = 1
                      THEN tied[i].forward_fn = NoFn /\ StageKind(tied[i]).kind = "embedding"
                      ELSE tied[i].forward_fn # NoFn /\ StageKind(tied[i]).kind = "output"
                /\ \A p \in 1..Len(self.specs) :
                      StageKind(self.specs[p]).kind \in {"embedding", "output"}
                          => self.specs[p].cls = "TiedLayerSpec"
           ELSE tied = <<>>

\* C5, reached: a distillation list under weight tying, with both keys.
C5_Witness ==
    /\ pc = "built"
    /\ self.do_distillation
    /\ ~given.neox_args.no_weight_tying
    /\ Len(TiedSpecs(self.specs)) = 4
    /\ TiedSpecs(self.specs)[3].key = "embed_s"

\* C6: a pipeline assembled with inference=True has no loss function; one
\* assembled with inference=False has cross_entropy without distillation and
\* combined_loss with the arguments' alpha_lm, alpha_kld, alpha_mse with it.
C6_LossBinding ==
    pc = "built" =>
        IF given.inference
        THEN self.loss_fn = None
        ELSE /\ self.loss_fn # None
             /\ LET f == Get(self.loss_fn)
                IN IF given.neox_args.do_distillation
                   THEN /\ f.fn = "combined_loss"
                        /\ f.alpha_lm = given.neox_args.alpha_lm
                        /\ f.alpha_kld = given.neox_args.alpha_kld
                        /\ f.alpha_mse = given.neox_args.alpha_mse
                   ELSE f.fn = "cross_entropy"

\* C6, reached: a pipeline assembled with inference=True, without loss.
C6_Witness ==
    /\ pc = "built"
    /\ given.inference
    /\ Len(self.specs) > 0
    /\ self.loss_fn = None

\* C8: assembling with a norm kind other than layernorm, rmsnorm, scalenorm
\* fails with a configuration error that reports that norm kind.
C8_UnknownNormReported ==
    (/\ pc \notin {"new", "loss", "loss_done"}
     /\ objects # <<>>
     /\ given.neox_args.norm \notin NormKinds
     /\ ~(given.neox_args.do_distillation /\ given.inference)) =>
        /\ pc = "failed"
        /\ error.type \in {"ConfigurationError", "ValueError", "AssertionError"}
        /\ error.what = given.neox_args.norm

\* An element that is neither a Tied spec, a Regular spec nor a callable.
Unrecognized(s) == s.cls \notin {"TiedLayerSpec", "LayerSpec", "function"}

UnrecognizedPositions(specs) == {p \in 1..Len(specs) : Unrecognized(specs[p])}

\* The position, counted from 0, of the first unrecognized element.
FirstUnrecognized(specs) ==
    (CHOOSE p \in UnrecognizedPositions(specs) :
        \A q \in UnrecognizedPositions(specs) : p <= q) - 1

\* The position of the owner of key in specs: its first Tied spec.
OwnerOf(specs, key) ==
    CHOOSE p \in 1..Len(specs) :
        /\ specs[p].cls = "TiedLayerSpec" /\ specs[p].key = key
        /\ \A q \in 1..(p - 1) : ~(specs[q].cls = "TiedLayerSpec" /\ specs[q].key = key)

\* C1: in a list built by the constructor, a receiver wrapper that is called
\* calls the forward_fn of the Tied spec at its own position with the module
\* registered under that spec's key.
C1_ReceiverUsesOwnSpec ==
    (/\ objects # <<>>
     /\ pc = "sequential"
     /\ called.layer # 0
     /\ model.layers[called.layer] = ReceiverLambda) =>
        /\ called.error = NoError
        /\ called.spec = called.layer
        /\ called.forward_fn = self.specs[called.layer].forward_fn
        /\ called.module = OwnerOf(self.specs, self.specs[called.layer].key)

\* C7: to_sequential raises the error naming position k exactly when the list
\* has an unrecognized element, k being the position of the first one, and then
\* returns no model.
C7_UnrecognizedPosition ==
    pc \in {"sequential", "seq_failed"} =>
        IF UnrecognizedPositions(self.specs) # {}
        THEN /\ pc = "seq_failed"
             /\ error = Raise("ValueError", "Not recognized", FirstUnrecognized(self.specs))
             /\ model = NoModel
        ELSE /\ pc = "sequential"
             /\ error = NoError
             /\ Len(model.layers) = Len(self.specs)

\* C7, reached: two unrecognized elements, the first at position 1 (from 0),
\* and to_sequential has raised.
C7_Witness ==
    /\ pc = "seq_failed"
    /\ error.type = "ValueError"
    /\ error.n = 1
    /\ Cardinality(UnrecognizedPositions(self.specs)) = 2

\* The loss functions' tensor arguments pass the dtype assertions of the
\* validated half-precision mode.
DtypesAccepted ==
    loss_in._fp16 =>
        /\ loss_in.output.student_logits.dtype = "half"
        /\ loss_in.output.teacher_logits.dtype = "half"
        /\ loss_in.loss_mask.dtype = "half"

\* alpha * term for a weight that is strictly positive, nothing otherwise.
Weighted(alpha, r) == IF alpha > 0 THEN alpha * r.value ELSE 0
Evaluated(alpha, r) == IF alpha > 0 THEN r.prims ELSE <<>>

\* C3: combined_loss returns the sum of alpha * term over the terms whose
\* weight is strictly positive and evaluates only those terms; it returns a
\* value, not an error, also when alpha_lm is zero and another weight is
\* positive. (Stated for the triples with a positive weight.)
C3_WeightedSumOfPositiveTerms ==
    (/\ loss_out.fn = "combined_loss"
     /\ DtypesAccepted
     /\ loss_in.alpha_lm + loss_in.alpha_kld + loss_in.alpha_mse > 0) =>
        LET student == loss_in.output.student_logits
            teacher == loss_in.output.teacher_logits
            ce == cross_entropy(student, loss_in.labels, loss_in.loss_mask,
                                loss_in._fp16, loss_in.values)
            kl == kldiv_loss(student, teacher, loss_in.loss_mask, loss_in._fp16, loss_in.values)
            ms == mse_loss(student, teacher, loss_in.loss_mask, loss_in._fp16, loss_in.values)
        IN /\ loss_out.error = NoError
           /\ loss_out.value = Weighted(loss_in.alpha_lm, ce) + Weighted(loss_in.alpha_kld, kl)
                                   + Weighted(loss_in.alpha_mse, ms)
           /\ loss_out.prims = (Evaluated(loss_in.alpha_lm, ce) \o Evaluated(loss_in.alpha_kld, kl))
                                   \o Evaluated(loss_in.alpha_mse, ms)

\* C9: mse_loss computes the masked mean squared error, with a primitive that
\* is not the KL-divergence primitive kldiv_loss uses.
C9_MseUsesMsePrimitive ==
    (loss_out.fn = "mse_loss" /\ loss_out.error = NoError) =>
        /\ \A i \in 1..Len(loss_out.prims) :
              loss_out.prims[i].primitive # "vocab_parallel_KLDivLoss"
        /\ loss_out.value = loss_in.values["mean_squared_error"]

\* C10: with _fp16 off, no half-precision tensor reaches a loss primitive in
\* cross_entropy, kldiv_loss or mse_loss: logits and teacher-logit labels are
\* upcast before the primitive is called.
C10_UpcastBeforePrimitive ==
    (loss_out.fn \in {"cross_entropy", "kldiv_loss", "mse_loss"} /\ ~loss_in._fp16) =>
        \A i \in 1..Len(loss_out.prims) :
            /\ loss_out.prims[i].output # "half"
            /\ loss_out.prims[i].labels # "half"
====
